---------------------------- MODULE Spec2Model ----------------------------
(***************************************************************************)
(* A model of the vkd3d-proton source patchers of this repository:        *)
(*                                                                         *)
(*   prog = "v3x"     src/patches/patcher.py   V3XPatcher   (sequential)   *)
(*   prog = "scripts" src/scripts/patcher.py   Vkd3dPatcher (sequential)   *)
(*   prog = "driver"  src/vkd3d-patches.py     apply_patches (thread pool) *)
(*                                                                         *)
(* Text is modelled at the level of statements.  A file's content is a     *)
(* sequence of statements, a statement is a record                         *)
(*     [k |-> "asgn", v |-> lvalue, r |-> right-hand side]   lvalue = r;   *)
(*     [k |-> "def",  v |-> macro,  r |-> digits]            #define v r   *)
(*     [k |-> "def2", v |-> macro,  r |-> digits]            #define v r 1 *)
(*     [k |-> "def3", v |-> macro,  r |-> digits]          #define v r 1 1 *)
(*     [k |-> "call", v |-> function, r |-> ""]              v()           *)
(*     [k |-> "text", v |-> text,   r |-> ""]                inert text    *)
(* and a rule is a record [k, v, to, n]: the shape its regular expression  *)
(* matches (k, v), the value its replacement template writes (to) and its  *)
(* name (n).  re.findall is the number of matching statements, re.sub the  *)
(* rewriting of every matching statement.                                  *)
(***************************************************************************)
EXTENDS Integers, Sequences, FiniteSets, Bags, TLC

\* ---- bounds of the model ----

\* longest content (in statements) of the capability file at the start
MaxStmts == 2
\* number of times apply is run over the same tree, and of times the engine
\* is applied to its own output
MaxRuns == 2
\* longest rule list that is put together from single rules
MaxRules == 2
\* largest --max-workers of the concurrent driver
MaxWorkers == 2

VARIABLES
    prog,        \* which of the three programs runs
    disk,        \* path -> content: the bytes of every file
    fstat,       \* path -> "ok" | "gone" | "noread" | "nowrite"
    dry,         \* the --dry-run flag
    profile,     \* the --profile tier (v3x, scripts)
    gpuPatches,  \* what self.gpu.patches() returns (v3x)
    arch,        \* the --arch choice (driver)
    max_workers, \* the worker count (driver)
    cap_files,   \* the capability files the locator found (device_files in the driver)
    all_c,       \* all source files the locator found (all_files in the driver)
    pc,          \* "run" | "done" | "crashed": position of the main thread
    idx,         \* sequential programs: index of the next task
    result,      \* the accumulator: applied, skipped, failed, errors, warnings, details
    fut,         \* driver: task index -> the state of its future
    lock,        \* driver: holder of _lock ("" when free)
    wlog,        \* history: every write of a file, [p, orig, new, run]
    wfail,       \* history: the number of failed writes of changed content
    eng,         \* the engine called on its own: input, applications so far
    parts,       \* PatchResult.merge called on its own: the partial results
    runs,        \* number of the current run
    exitcode     \* the process exit code of the last finished run (-1: none yet)

vars == << prog, disk, fstat, dry, profile, gpuPatches, arch, max_workers,
           cap_files, all_c, pc, idx, result, fut, lock, wlog, wfail, eng, parts,
           runs, exitcode >>

\* ---- statements and rules ----

Stmt(k, v, r) == [k |-> k, v |-> v, r |-> r]

Rule(k, v, to, n) == [k |-> k, v |-> v, to |-> to, n |-> n]

\* ---- what the regular expressions match and write ----

\* an assignment pattern that passes over a right-hand side that already is
\* the replacement's (what mk_asgn does not do)
MatchAsgnUnpatched(rule, s) == s.k = "asgn" /\ s.v = rule.v /\ s.r # rule.to

\* mk_asgn(var) and the '(var\s*=\s*)[^;]+;' patterns: an assignment to var,
\* whatever its right-hand side
MatchAsgn(rule, s) == s.k = "asgn" /\ s.v = rule.v

\* the shapes of a '#define': the macro and a number, followed by no, one or
\* two further 1s
DefKinds == {"def", "def2", "def3"}

\* mk_def(macro), '#define\s+M\s+\d+': the macro defined as any number; the
\* pattern also matches the head of '#define M <d> 1'
MatchDef(rule, s) == s.k \in DefKinds /\ s.v = rule.v

\* '#define\s+M\s+1': the macro defined as 1
MatchDefOne(rule, s) == s.k \in DefKinds /\ s.v = rule.v /\ s.r = "1"

\* mk_def(macro) + '\s+1', that is '#define\s+M\s+\d+\s+1': the macro, a
\* number, and then a further 1
MatchDefThenOne(rule, s) == s.k \in {"def2", "def3"} /\ s.v = rule.v

\* '(fn\s*\(\s*\))': a call of fn without arguments
MatchCall(rule, s) == s.k = "call" /\ s.v = rule.v

Matches(rule, s) ==
    CASE rule.k = "asgn"   -> MatchAsgn(rule, s)
      [] rule.k = "defany" -> MatchDef(rule, s)
      [] rule.k = "defone" -> MatchDefOne(rule, s)
      [] rule.k = "defd1"  -> MatchDefThenOne(rule, s)
      [] rule.k = "call"   -> MatchCall(rule, s)
      [] OTHER             -> FALSE

\* a replacement that leaves text no rule matches (what no template does)
RewriteToText(rule, s) == Stmt("text", rule.to, "")

\* the replacement template applied to one match
Rewrite(rule, s) ==
    CASE rule.k = "asgn"   -> [s EXCEPT !.r = rule.to]
      [] rule.k = "defany" -> [s EXCEPT !.r = rule.to]
      [] rule.k = "defone" -> [s EXCEPT !.r = rule.to]
      [] rule.k = "defd1"  -> Stmt(IF s.k = "def3" THEN "def2" ELSE "def",
                                   rule.v, rule.to)
      [] rule.k = "call"   -> Stmt("text", rule.to, "")
      [] OTHER             -> s

\* re.compile(pattern) raises re.error
Malformed(rule) == rule.k = "bad"

\* len(rgx.findall(content))
FindAll(rule, content) ==
    Cardinality({i \in DOMAIN content : Matches(rule, content[i])})

\* rgx.sub(repl, content)
Sub(rule, content) ==
    [i \in DOMAIN content |->
        IF Matches(rule, content[i]) THEN Rewrite(rule, content[i]) ELSE content[i]]

\* ---- the engine of the V3X patcher ----

\* what one call of the engine has computed so far; errors are the entries
\* the call appended to the caller-visible error list
Outcome(content) ==
    [content |-> content, applied |-> 0, skipped |-> 0, changes |-> << >>,
     errors |-> << >>]

\* an iteration that counts a rule error as a skip too (what the loop does
\* not do: its except branch only appends to the errors)
V3X_rule_step_skipping(acc, rule, dryFlag) ==
    IF Malformed(rule)
    THEN [acc EXCEPT !.errors = Append(@, << "RE", rule.n >>),
                     !.skipped = @ + 1]
    ELSE LET m == FindAll(rule, acc.content) IN
         IF m > 0
         THEN [acc EXCEPT !.content = IF dryFlag THEN @ ELSE Sub(rule, @),
                          !.applied = @ + m,
                          !.changes = Append(@, [n |-> rule.n, c |-> m])]
         ELSE [acc EXCEPT !.skipped = @ + 1]

\* an iteration that records a match in the change list without adding it to
\* applied (what the loop does not do)
V3X_rule_step_uncounted(acc, rule, dryFlag) ==
    IF Malformed(rule)
    THEN [acc EXCEPT !.errors = Append(@, << "RE", rule.n >>)]
    ELSE LET m == FindAll(rule, acc.content) IN
         IF m > 0
         THEN [acc EXCEPT !.content = IF dryFlag THEN @ ELSE Sub(rule, @),
                          !.changes = Append(@, [n |-> rule.n, c |-> m])]
         ELSE [acc EXCEPT !.skipped = @ + 1]

\* one iteration of the loop of V3XPatcher._apply_content
V3X_rule_step(acc, rule, dryFlag) ==
    IF Malformed(rule)
    THEN [acc EXCEPT !.errors = Append(@, << "RE", rule.n >>)]
    ELSE LET m == FindAll(rule, acc.content) IN
         IF m > 0
         THEN [acc EXCEPT !.content = IF dryFlag THEN @ ELSE Sub(rule, @),
                          !.applied = @ + m,
                          !.changes = Append(@, [n |-> rule.n, c |-> m])]
         ELSE [acc EXCEPT !.skipped = @ + 1]

\* the loop 'for pattern, repl, name in patches'; an iteration is evaluated
\* (its counters are looked at) before the next one starts
RECURSIVE V3X_loop(_, _, _)
V3X_loop(acc, patches, dryFlag) ==
    IF patches = << >> THEN acc
    ELSE LET nxt == V3X_rule_step(acc, Head(patches), dryFlag)
         IN  CASE nxt.applied + nxt.skipped >= 0 ->
                      V3X_loop(nxt, Tail(patches), dryFlag)

\* V3XPatcher._apply_content(content, patches)
V3X_apply_content(content, patches, dryFlag) ==
    V3X_loop(Outcome(content), patches, dryFlag)


\* the engine has not been called on its own
EngIdle == [variant |-> "", rules |-> << >>, input |-> << >>, outs |-> << >>]

\* PatchResult.merge has not been called on its own
NoParts == [orig |-> << >>, cur |-> << >>, live |-> {}]
\* ---- rule catalog of the V3X patcher (src/patches/profiles.py) ----

SM_P ==
    << Rule("asgn", "data->HighestShaderModel", "D3D_SHADER_MODEL_6_9", "sm69"),
       Rule("asgn", "info.HighestShaderModel", "D3D_SHADER_MODEL_6_9", "sm69i"),
       Rule("asgn", "MaxSupportedFeatureLevel", "D3D_FEATURE_LEVEL_12_2", "fl122") >>

WV_P ==
    << Rule("asgn", "options1.WaveOps", "TRUE", "wv0"),
       Rule("asgn", "options1.WaveLaneCountMin", "32", "wv1"),
       Rule("asgn", "options1.WaveLaneCountMax", "128", "wv2"),
       Rule("asgn", "options9.WaveMMATier", "D3D12_WAVE_MMA_TIER_1_0", "wv3") >>

RB_P ==
    << Rule("asgn", "options.ResourceBindingTier", "D3D12_RESOURCE_BINDING_TIER_3", "rb0"),
       Rule("asgn", "options.TiledResourcesTier", "D3D12_TILED_RESOURCES_TIER_4", "rb1"),
       Rule("asgn", "options.ResourceHeapTier", "D3D12_RESOURCE_HEAP_TIER_2", "rb2"),
       Rule("asgn", "options19.MaxSamplerDescriptorHeapSize", "4096", "rb3"),
       Rule("asgn", "options19.MaxViewDescriptorHeapSize", "1000000", "rb4") >>

SO_P ==
    << Rule("asgn", "options.DoublePrecisionFloatShaderOps", "TRUE", "so0"),
       Rule("asgn", "options1.Int64ShaderOps", "TRUE", "so1"),
       Rule("asgn", "options4.Native16BitShaderOpsSupported", "TRUE", "so2"),
       Rule("asgn", "options9.AtomicInt64OnTypedResourceSupported", "TRUE", "so3"),
       Rule("asgn", "options9.AtomicInt64OnGroupSharedSupported", "TRUE", "so4"),
       Rule("asgn", "options11.AtomicInt64OnDescriptorHeapResourceSupported", "TRUE", "so5") >>

MS_P ==
    << Rule("asgn", "options7.MeshShaderTier", "D3D12_MESH_SHADER_TIER_1", "ms0"),
       Rule("asgn", "options9.MeshShaderPipelineStatsSupported", "TRUE", "ms1"),
       Rule("asgn", "options9.MeshShaderSupportsFullRangeRenderTargetArrayIndex", "TRUE", "ms2"),
       Rule("asgn", "options9.DerivativesInMeshAndAmplificationShadersSupported", "TRUE", "ms3"),
       Rule("asgn", "options10.MeshShaderPerPrimitiveShadingRateSupported", "TRUE", "ms4"),
       Rule("asgn", "options21.ExecuteIndirectTier", "D3D12_EXECUTE_INDIRECT_TIER_1_1", "ms5"),
       Rule("asgn", "options21.WorkGraphsTier", "D3D12_WORK_GRAPHS_TIER_1_0", "ms6"),
       Rule("asgn", "options12.EnhancedBarriersSupported", "TRUE", "ms7"),
       Rule("asgn", "options20.ComputeOnlyWriteWatchSupported", "TRUE", "ms8") >>

RT_P ==
    << Rule("asgn", "options5.RaytracingTier", "D3D12_RAYTRACING_TIER_1_1", "rt0"),
       Rule("asgn", "options5.RenderPassesTier", "D3D12_RENDER_PASS_TIER_2", "rt1"),
       Rule("asgn", "options6.VariableShadingRateTier", "D3D12_VARIABLE_SHADING_RATE_TIER_2", "rt2"),
       Rule("asgn", "options6.ShadingRateImageTileSize", "8", "rt3"),
       Rule("asgn", "options6.BackgroundProcessingSupported", "TRUE", "rt4"),
       Rule("asgn", "options10.VariableRateShadingSumCombinerSupported", "TRUE", "rt5") >>

\* SF_P of the source (a name that begins with SF_ is no TLA+ identifier)
SFeedback_P ==
    << Rule("asgn", "options7.SamplerFeedbackTier", "D3D12_SAMPLER_FEEDBACK_TIER_1_0", "sf0"),
       Rule("asgn", "options2.DepthBoundsTestSupported", "TRUE", "sf1"),
       Rule("asgn", "options14.AdvancedTextureOpsSupported", "TRUE", "sf2"),
       Rule("asgn", "options14.WriteableMSAATexturesSupported", "TRUE", "sf3") >>

TX_P ==
    << Rule("asgn", "options8.UnalignedBlockTexturesSupported", "TRUE", "tx0"),
       Rule("asgn", "options13.UnrestrictedBufferTextureCopyPitchSupported", "TRUE", "tx1"),
       Rule("asgn", "options13.TextureCopyBetweenDimensionsSupported", "TRUE", "tx2"),
       Rule("asgn", "options16.GPUUploadHeapSupported", "TRUE", "tx3") >>

RN_P ==
    << Rule("asgn", "options13.UnrestrictedVertexElementAlignmentSupported", "TRUE", "rn0"),
       Rule("asgn", "options13.InvertedViewportHeightFlipsYSupported", "TRUE", "rn1"),
       Rule("asgn", "options13.InvertedViewportDepthFlipsZSupported", "TRUE", "rn2"),
       Rule("asgn", "options13.AlphaBlendFactorSupported", "TRUE", "rn3"),
       Rule("asgn", "options15.TriangleFanSupported", "TRUE", "rn4"),
       Rule("asgn", "options15.DynamicIndexBufferStripCutSupported", "TRUE", "rn5"),
       Rule("asgn", "options19.RasterizerDesc2Supported", "TRUE", "rn6"),
       Rule("asgn", "options19.NarrowQuadrilateralLinesSupported", "TRUE", "rn7") >>

PF_P ==
    << Rule("defd1", "VKD3D_DEBUG", "0", "pf0"),
       Rule("defd1", "VKD3D_PROFILING", "0", "pf1"),
       Rule("defd1", "VKD3D_SHADER_DEBUG", "0", "pf2") >>

CP_P ==
    << Rule("defany", "VKD3D_ENABLE_AVX", "1", "cp0"),
       Rule("defany", "VKD3D_ENABLE_AVX2", "1", "cp1"),
       Rule("defany", "VKD3D_ENABLE_FMA", "1", "cp2"),
       Rule("defany", "VKD3D_ENABLE_SSE4_2", "1", "cp3") >>

\* ---- rule catalog of the stand-alone script (src/scripts/patcher.py) ----

Scripts_GPU_P ==
    << Rule("asgn", "adapter_id.vendor_id", "0x1002", "gpu_vid"),
       Rule("asgn", "adapter_id.device_id", "0x73DF", "gpu_did"),
       Rule("asgn", "VendorId", "0x1002", "gpu_vid2"),
       Rule("asgn", "DeviceId", "0x73DF", "gpu_did2"),
       Rule("asgn", "SharedSystemMemory", "16384ULL * 1024 * 1024", "gpu_mem") >>

Scripts_SM_P ==
    << Rule("asgn", "data->HighestShaderModel", "D3D_SHADER_MODEL_6_8", "sm"),
       Rule("asgn", "info.HighestShaderModel", "D3D_SHADER_MODEL_6_8", "sm_info") >>

Scripts_WV_P ==
    << Rule("asgn", "options1.WaveOps", "TRUE", "wv0"),
       Rule("asgn", "options1.WaveLaneCountMin", "32", "wv1"),
       Rule("asgn", "options1.WaveLaneCountMax", "128", "wv2") >>

Scripts_RB_P ==
    << Rule("asgn", "options.ResourceBindingTier", "D3D12_RESOURCE_BINDING_TIER_3", "rb0"),
       Rule("asgn", "options.TiledResourcesTier", "D3D12_TILED_RESOURCES_TIER_4", "rb1"),
       Rule("asgn", "options.ResourceHeapTier", "D3D12_RESOURCE_HEAP_TIER_2", "rb2") >>

Scripts_SO_P ==
    << Rule("asgn", "options.DoublePrecisionFloatShaderOps", "TRUE", "so0"),
       Rule("asgn", "options1.Int64ShaderOps", "TRUE", "so1"),
       Rule("asgn", "options4.Native16BitShaderOpsSupported", "TRUE", "so2") >>

Scripts_MS_P ==
    << Rule("asgn", "options7.MeshShaderTier", "D3D12_MESH_SHADER_TIER_1", "ms0"),
       Rule("asgn", "options12.EnhancedBarriersSupported", "TRUE", "ms7") >>

Scripts_RT_P ==
    << Rule("asgn", "options5.RaytracingTier", "D3D12_RAYTRACING_TIER_1_1", "rt0"),
       Rule("asgn", "options5.RenderPassesTier", "D3D12_RENDER_PASS_TIER_2", "rt1"),
       Rule("asgn", "options6.VariableShadingRateTier", "D3D12_VARIABLE_SHADING_RATE_TIER_2", "rt2"),
       Rule("asgn", "options6.ShadingRateImageTileSize", "8", "rt3"),
       Rule("asgn", "options6.BackgroundProcessingSupported", "TRUE", "rt4") >>

Scripts_SF_P ==
    << Rule("asgn", "options7.SamplerFeedbackTier", "D3D12_SAMPLER_FEEDBACK_TIER_1_0", "sf0"),
       Rule("asgn", "options2.DepthBoundsTestSupported", "TRUE", "sf1") >>

Scripts_TX_P ==
    << Rule("asgn", "options8.UnalignedBlockTexturesSupported", "TRUE", "tx0") >>

Scripts_RN_P ==
    << Rule("asgn", "options15.TriangleFanSupported", "TRUE", "rn4") >>

\* ---- rule catalog of the concurrent driver (src/vkd3d-patches.py) ----

SHADER_PATCHES ==
    << Rule("asgn", "data->HighestShaderModel", "D3D_SHADER_MODEL_6_6", "data->HighestShaderModel"),
       Rule("asgn", "info.HighestShaderModel", "D3D_SHADER_MODEL_6_6", "info.HighestShaderModel"),
       Rule("asgn", "MaxSupportedFeatureLevel", "D3D_FEATURE_LEVEL_12_2", "MaxSupportedFeatureLevel") >>

RT_PATCHES ==
    << Rule("asgn", "options5.RaytracingTier", "D3D12_RAYTRACING_TIER_1_0", "options5.RaytracingTier") >>

MESH_PATCHES ==
    << Rule("asgn", "options7.MeshShaderTier", "D3D12_MESH_SHADER_TIER_1", "options7.MeshShaderTier") >>

VRS_PATCHES ==
    << Rule("asgn", "options6.VariableShadingRateTier", "D3D12_VARIABLE_SHADING_RATE_TIER_2", "options6.VariableShadingRateTier") >>

WAVE_PATCHES ==
    << Rule("asgn", "options1.WaveOps", "TRUE", "options1.WaveOps"),
       Rule("asgn", "options1.WaveLaneCountMin", "32", "options1.WaveLaneCountMin"),
       Rule("asgn", "options1.WaveLaneCountMax", "64", "options1.WaveLaneCountMax") >>

RESOURCE_PATCHES ==
    << Rule("asgn", "options.ResourceBindingTier", "D3D12_RESOURCE_BINDING_TIER_3", "options.ResourceBindingTier"),
       Rule("asgn", "options.TiledResourcesTier", "D3D12_TILED_RESOURCES_TIER_3", "options.TiledResourcesTier"),
       Rule("asgn", "options.ResourceHeapTier", "D3D12_RESOURCE_HEAP_TIER_2", "options.ResourceHeapTier") >>

SHADER_OPS_PATCHES ==
    << Rule("asgn", "options.DoublePrecisionFloatShaderOps", "TRUE", "options.DoublePrecisionFloatShaderOps"),
       Rule("asgn", "options1.Int64ShaderOps", "TRUE", "options1.Int64ShaderOps"),
       Rule("asgn", "options4.Native16BitShaderOpsSupported", "TRUE", "options4.Native16BitShaderOpsSupported") >>

ENHANCED_PATCHES ==
    << Rule("asgn", "options12.EnhancedBarriersSupported", "TRUE", "options12.EnhancedBarriersSupported"),
       Rule("asgn", "options2.DepthBoundsTestSupported", "TRUE", "options2.DepthBoundsTestSupported") >>

CPU_X86_64_PATCHES ==
    << Rule("call", "vkd3d_cpu_supports_sse4_2", "true", "vkd3d_cpu_supports_sse4_2"),
       Rule("call", "vkd3d_cpu_supports_avx", "true", "vkd3d_cpu_supports_avx"),
       Rule("call", "vkd3d_cpu_supports_avx2", "true", "vkd3d_cpu_supports_avx2"),
       Rule("call", "vkd3d_cpu_supports_fma", "true", "vkd3d_cpu_supports_fma"),
       Rule("defany", "VKD3D_ENABLE_AVX", "1", "VKD3D_ENABLE_AVX"),
       Rule("defany", "VKD3D_ENABLE_AVX2", "1", "VKD3D_ENABLE_AVX2"),
       Rule("defany", "VKD3D_ENABLE_FMA", "1", "VKD3D_ENABLE_FMA"),
       Rule("defany", "VKD3D_ENABLE_SSE4_2", "1", "VKD3D_ENABLE_SSE4_2") >>

CPU_ARM64EC_PATCHES ==
    << Rule("defany", "VKD3D_ENABLE_AVX", "0", "VKD3D_ENABLE_AVX"),
       Rule("defany", "VKD3D_ENABLE_AVX2", "0", "VKD3D_ENABLE_AVX2"),
       Rule("defany", "VKD3D_ENABLE_FMA", "0", "VKD3D_ENABLE_FMA"),
       Rule("defany", "VKD3D_ENABLE_SSE4_2", "0", "VKD3D_ENABLE_SSE4_2"),
       Rule("defany", "VKD3D_ENABLE_SSE", "0", "VKD3D_ENABLE_SSE"),
       Rule("call", "vkd3d_cpu_supports_sse4_2", "false", "vkd3d_cpu_supports_sse4_2"),
       Rule("call", "vkd3d_cpu_supports_avx", "false", "vkd3d_cpu_supports_avx"),
       Rule("call", "vkd3d_cpu_supports_avx2", "false", "vkd3d_cpu_supports_avx2"),
       Rule("call", "vkd3d_cpu_supports_fma", "false", "vkd3d_cpu_supports_fma") >>

PERF_PATCHES ==
    << Rule("defone", "VKD3D_DEBUG", "0", "VKD3D_DEBUG"),
       Rule("defone", "VKD3D_PROFILING", "0", "VKD3D_PROFILING") >>

\* ---- the file tree ----

Dev == "libs/vkd3d/device.c"
Dev2 == "libs/vkd3d/backend/device.c"
Util == "libs/vkd3d-shader/dxil.c"
Paths == {Dev, Dev2, Util}

\* the statements a file of the tree may hold before the first run
StmtU ==
    { Stmt("asgn", "data->HighestShaderModel", "D3D_SHADER_MODEL_6_0"),
      Stmt("def", "VKD3D_ENABLE_AVX", "0"),
      Stmt("def", "VKD3D_DEBUG", "1") }

SeqsUpTo(S, n) == UNION {[1..m -> S] : m \in 0..n}

\* contents of a capability file, and of another source file (macros only)
DevContents == SeqsUpTo(StmtU, MaxStmts)
UtilContents == { << >>, << Stmt("def", "VKD3D_ENABLE_AVX", "0") >> }

FileStates == {"ok", "gone", "noread", "nowrite"}

\* a check that finds every path (what os.path.exists does not do)
ExistsAlways(fp) == TRUE

\* os.path.exists(fp)
Exists(fp) == fstat[fp] # "gone"
\* open(fp, 'r') succeeds
Readable(fp) == fstat[fp] # "noread"
\* open(fp, 'w') succeeds
Writable(fp) == fstat[fp] # "nowrite"

\* ---- PatchResult ----

PatchResult ==
    [applied |-> 0, skipped |-> 0, failed |-> 0, errors |-> << >>,
     warnings |-> << >>, details |-> << >>]

\* a success that looks at the failed counter only (not what the code does)
success_by_failed(res) == res.failed = 0

\* PatchResult.success
success(res) == res.failed = 0 /\ Len(res.errors) = 0

\* ---- the V3X patcher ----

PatchProfile == {"p3", "p7", "p9"}

\* self.gpu.patches(): the hardware-identity overrides of the GPU configuration
GpuPatchChoices ==
    { << Rule("asgn", "adapter_id.vendor_id", "0x1002", "gpu_vid") >>,
      << Rule("asgn", "data->HighestShaderModel", "D3D_SHADER_MODEL_6_9", "gpu_sm"),
         Rule("bad", "(", "", "gpu_bad"),
         Rule("defany", "VKD3D_ENABLE_AVX", "1", "gpu_avx") >> }

\* a resolution in which the top tier drops the base groups (not what the code
\* does)
V3X_get_patches_top_only(p) ==
    IF p = "p9" THEN << "MS_P", "RT_P", "SF_P", "TX_P", "RN_P" >>
    ELSE IF p = "p7" THEN << "SM_P", "WV_P", "RB_P", "SO_P", "MS_P", "RT_P", "SF_P", "TX_P" >>
    ELSE << "SM_P", "WV_P", "RB_P", "SO_P" >>

\* V3XPatcher._get_patches, as names of the groups
V3X_get_patches(p) ==
    LET base == << "SM_P", "WV_P", "RB_P", "SO_P" >>
        ext == << "MS_P", "RT_P", "SF_P", "TX_P" >>
    IN  IF p = "p3" THEN base
        ELSE IF p = "p7" THEN base \o ext
        ELSE IF p = "p9" THEN base \o ext \o << "RN_P" >>
        ELSE base

\* the rules of a group
Group(g) ==
    CASE g = "SM_P" -> SM_P [] g = "WV_P" -> WV_P [] g = "RB_P" -> RB_P
      [] g = "SO_P" -> SO_P [] g = "MS_P" -> MS_P [] g = "RT_P" -> RT_P
      [] g = "SF_P" -> SFeedback_P [] g = "TX_P" -> TX_P [] g = "RN_P" -> RN_P
      [] g = "PF_P" -> PF_P [] g = "CP_P" -> CP_P
      [] g = "gpu" -> gpuPatches

\* the part of the machine a call of _apply_file reads and changes
Machine == [disk |-> disk, result |-> result, wlog |-> wlog, wfail |-> wfail]

WriteRec(fp, orig, new) == [p |-> fp, orig |-> orig, new |-> new, run |-> runs]

\* 'if content != orig and not self.dry' of _apply_file
V3X_writes(orig, content) == content # orig /\ ~dry

\* V3XPatcher._apply_file(fp, patches), from machine state st
V3X_apply_file(st, fp, patches) ==
    LET orig == st.disk[fp]
        o == V3X_apply_content(orig, patches, dry)
        counted == [st.result EXCEPT
                       !.errors = @ \o o.errors,
                       !.applied = @ + o.applied,
                       !.skipped = @ + o.skipped,
                       !.details = IF o.changes # << >>
                                   THEN Append(@, [f |-> fp, p |-> fp, ch |-> o.changes])
                                   ELSE @]
    IN  IF ~Exists(fp) THEN st
        ELSE IF ~Readable(fp)
        THEN [st EXCEPT !.result.errors = Append(@, << "R", fp >>)]
        ELSE IF V3X_writes(orig, o.content)
        THEN IF Writable(fp)
             THEN [st EXCEPT !.disk[fp] = o.content,
                             !.result = counted,
                             !.wlog = @ \cup {WriteRec(fp, orig, o.content)}]
             ELSE [st EXCEPT !.result = [counted EXCEPT
                                            !.errors = Append(@, << "W", fp >>),
                                            !.failed = @ + 1],
                             !.wfail = @ + 1]
        ELSE [st EXCEPT !.result = counted]

\* a sequence of calls of _apply_file on one file, one per group name of gs
RECURSIVE V3X_apply_groups(_, _, _)
V3X_apply_groups(st, fp, gs) ==
    IF gs = << >> THEN st
    ELSE LET nxt == V3X_apply_file(st, fp, Group(Head(gs)))
         IN  CASE nxt.result.applied >= 0 -> V3X_apply_groups(nxt, fp, Tail(gs))

\* the files of the two passes of V3XPatcher.apply, in order
V3X_worklist ==
    [i \in 1..Len(cap_files) |-> [p |-> cap_files[i], pass |-> "cap"]]
    \o [i \in 1..Len(all_c) |-> [p |-> all_c[i], pass |-> "all"]]

\* one iteration of 'for fp in cap_files': every group of the profile, then
\* the GPU overrides (self.gpu is never None: gpu or DEFAULT_CFG)
V3X_cap_file ==
    /\ prog = "v3x" /\ pc = "run" /\ idx <= Len(V3X_worklist)
    /\ V3X_worklist[idx].pass = "cap"
    /\ \E st \in {V3X_apply_groups(Machine, V3X_worklist[idx].p,
                                    V3X_get_patches(profile) \o << "gpu" >>)} :
           /\ disk' = st.disk /\ result' = st.result
           /\ wlog' = st.wlog /\ wfail' = st.wfail
    /\ idx' = idx + 1
    /\ UNCHANGED << prog, eng, parts, fstat, dry, profile, gpuPatches, arch, max_workers,
                    cap_files, all_c, pc, fut, lock, runs, exitcode >>

\* one iteration of 'for fp in all_c': CP_P, then PF_P
V3X_all_file ==
    /\ prog = "v3x" /\ pc = "run" /\ idx <= Len(V3X_worklist)
    /\ V3X_worklist[idx].pass = "all"
    /\ \E st \in {V3X_apply_groups(Machine, V3X_worklist[idx].p, << "CP_P", "PF_P" >>)} :
           /\ disk' = st.disk /\ result' = st.result
           /\ wlog' = st.wlog /\ wfail' = st.wfail
    /\ idx' = idx + 1
    /\ UNCHANGED << prog, eng, parts, fstat, dry, profile, gpuPatches, arch, max_workers,
                    cap_files, all_c, pc, fut, lock, runs, exitcode >>

\* the end of V3XPatcher.apply and of main: the exit code
V3X_finish ==
    /\ prog = "v3x" /\ pc = "run" /\ idx > Len(V3X_worklist)
    /\ pc' = "done"
    /\ exitcode' = IF success(result) THEN 0 ELSE 1
    /\ UNCHANGED << prog, eng, parts, disk, fstat, dry, profile, gpuPatches, arch, max_workers,
                    cap_files, all_c, idx, result, fut, lock, wlog, wfail, runs >>

\* apply called once more on the same patcher object
V3X_apply_again ==
    /\ prog = "v3x" /\ pc = "done" /\ runs < MaxRuns
    /\ pc' = "run" /\ idx' = 1 /\ runs' = runs + 1
    /\ UNCHANGED << prog, eng, parts, disk, fstat, dry, profile, gpuPatches, arch, max_workers,
                    cap_files, all_c, result, fut, lock, wlog, wfail, exitcode >>

\* the files the locator returns: the capability file is among all files
Found == { << >>, << Dev >>, << Util >>, << Dev, Util >> }

CapOf(files) == SelectSeq(files, LAMBDA f : f = Dev)

\* a path the locator did not return plays no part: fix what the model holds for it
TreeOK(files) ==
    \A p \in Paths :
        (\A i \in DOMAIN files : files[i] # p) => disk[p] = << >> /\ fstat[p] = "ok"

InitV3X ==
    /\ prog = "v3x"
    /\ \E d \in DevContents, u \in UtilContents :
           disk = [p \in Paths |-> IF p = Dev THEN d ELSE IF p = Util THEN u ELSE << >>]
    /\ fstat \in [Paths -> FileStates]
    /\ dry \in BOOLEAN
    /\ profile \in PatchProfile
    /\ gpuPatches \in GpuPatchChoices
    /\ arch = "" /\ max_workers = 0
    /\ all_c \in Found
    /\ cap_files = CapOf(all_c)
    /\ TreeOK(all_c)
    /\ pc = "run" /\ idx = 1
    /\ result = PatchResult
    /\ fut = << >> /\ lock = ""
    /\ wlog = {} /\ wfail = 0
    /\ eng = EngIdle /\ parts = NoParts
    /\ runs = 1
    /\ exitcode = -1

NextV3X == V3X_cap_file \/ V3X_all_file \/ V3X_finish \/ V3X_apply_again

SpecV3X == InitV3X /\ [][NextV3X]_vars

\* ---- the stand-alone script (Vkd3dPatcher) ----

ScriptsProfiles == {"p3", "p7", "p9", "high"}

\* a tier no profile table knows; the constructor takes any string
UnknownTier == "p5"

\* Vkd3dPatcher._get_patches, as names of the groups
Scripts_get_patches(p) ==
    LET base == << "SM_P", "WV_P", "RB_P", "SO_P" >>
        ext == << "MS_P", "RT_P", "SF_P", "TX_P", "RN_P" >>
    IN  IF p = "p3" THEN base
        ELSE IF p \in {"p7", "p9"} THEN base \o ext
        ELSE IF p = "high" THEN base \o ext \o << "GPU_P" >>
        ELSE base

\* the rules of a group of the script
Scripts_group(g) ==
    CASE g = "SM_P" -> Scripts_SM_P [] g = "WV_P" -> Scripts_WV_P
      [] g = "RB_P" -> Scripts_RB_P [] g = "SO_P" -> Scripts_SO_P
      [] g = "MS_P" -> Scripts_MS_P [] g = "RT_P" -> Scripts_RT_P
      [] g = "SF_P" -> Scripts_SF_P [] g = "TX_P" -> Scripts_TX_P
      [] g = "RN_P" -> Scripts_RN_P [] g = "GPU_P" -> Scripts_GPU_P

\* one iteration of the inner loop of Vkd3dPatcher._apply_content
Scripts_rule_step(acc, rule, dryFlag) ==
    IF Malformed(rule)
    THEN [acc EXCEPT !.errors = Append(@, << "RE", rule.n >>)]
    ELSE LET count == FindAll(rule, acc.content) IN
         IF count # 0
         THEN [acc EXCEPT !.content = IF dryFlag THEN @ ELSE Sub(rule, @),
                          !.applied = @ + count,
                          !.changes = Append(@, [patch |-> rule.n, count |-> count])]
         ELSE [acc EXCEPT !.skipped = @ + 1]

\* the inner loop 'for pattern, repl, name in patch_group'
RECURSIVE Scripts_group_loop(_, _, _)
Scripts_group_loop(acc, patch_group, dryFlag) ==
    IF patch_group = << >> THEN acc
    ELSE LET nxt == Scripts_rule_step(acc, Head(patch_group), dryFlag)
         IN  CASE nxt.applied + nxt.skipped >= 0 ->
                      Scripts_group_loop(nxt, Tail(patch_group), dryFlag)

\* the outer loop 'for patch_group in patches'
RECURSIVE Scripts_loop(_, _, _)
Scripts_loop(acc, patches, dryFlag) ==
    IF patches = << >> THEN acc
    ELSE LET nxt == Scripts_group_loop(acc, Head(patches), dryFlag)
         IN  CASE nxt.applied + nxt.skipped >= 0 ->
                      Scripts_loop(nxt, Tail(patches), dryFlag)

\* Vkd3dPatcher._apply_content(content, patches), patches a list of groups
Scripts_apply_content(content, patches, dryFlag) ==
    Scripts_loop(Outcome(content), patches, dryFlag)

\* the list of groups that apply hands to _apply_content
Scripts_patches(p) ==
    [i \in DOMAIN Scripts_get_patches(p) |-> Scripts_group(Scripts_get_patches(p)[i])]

\* a write that does not look at the dry flag (not what the code does)
Scripts_writes_always == TRUE

\* 'if not self.dry' of Vkd3dPatcher.apply: the file is written whether or
\* not the rules changed its content
Scripts_writes == ~dry

\* one iteration of 'for fp in cap_files' of Vkd3dPatcher.apply.  The read and
\* the write are not guarded: an exception of open() ends the process.
Scripts_cap_file ==
    /\ prog = "scripts" /\ pc = "run" /\ idx <= Len(cap_files)
    /\ \E o \in {Scripts_apply_content(disk[cap_files[idx]],
                                       Scripts_patches(profile), dry)} :
       LET fp == cap_files[idx]
           content == disk[fp]
           crash == /\ pc' = "crashed" /\ exitcode' = 1
                    /\ UNCHANGED << disk, wlog, idx >>
       IN  IF ~Exists(fp) \/ ~Readable(fp)
           THEN crash /\ UNCHANGED << result, wfail >>
           ELSE IF Scripts_writes /\ ~Writable(fp)
           THEN \* the rule errors of _apply_content are already in self.errors
                /\ crash
                /\ result' = [result EXCEPT !.errors = @ \o o.errors]
                /\ wfail' = IF o.content # content THEN wfail + 1 ELSE wfail
           ELSE /\ IF Scripts_writes
                   THEN /\ disk' = [disk EXCEPT ![fp] = o.content]
                        /\ wlog' = wlog \cup {WriteRec(fp, content, o.content)}
                   ELSE UNCHANGED << disk, wlog >>
                /\ UNCHANGED wfail
                /\ result' = [result EXCEPT
                       !.errors = @ \o o.errors,
                       !.applied = @ + o.applied,
                       !.skipped = @ + o.skipped,
                       !.details = IF o.changes # << >>
                                   THEN Append(@, [file |-> fp, changes |-> o.changes])
                                   ELSE @]
                /\ idx' = idx + 1
                /\ UNCHANGED << pc, exitcode >>
    /\ UNCHANGED << prog, eng, parts, fstat, dry, profile, gpuPatches, arch, max_workers,
                    cap_files, all_c, fut, lock, runs >>

\* the end of Vkd3dPatcher.apply and of main: the exit code
Scripts_finish ==
    /\ prog = "scripts" /\ pc = "run" /\ idx > Len(cap_files)
    /\ pc' = "done"
    /\ exitcode' = IF result.failed = 0 /\ Len(result.errors) = 0 THEN 0 ELSE 1
    /\ UNCHANGED << prog, eng, parts, disk, fstat, dry, profile, gpuPatches, arch, max_workers,
                    cap_files, all_c, idx, result, fut, lock, wlog, wfail, runs >>

\* apply called once more on the same patcher object
Scripts_apply_again ==
    /\ prog = "scripts" /\ pc = "done" /\ runs < MaxRuns
    /\ pc' = "run" /\ idx' = 1 /\ runs' = runs + 1
    /\ UNCHANGED << prog, eng, parts, disk, fstat, dry, profile, gpuPatches, arch, max_workers,
                    cap_files, all_c, result, fut, lock, wlog, wfail, exitcode >>

\* the capability files the locator returns to the script
ScriptsFound == { << >>, << Dev >>, << Dev, Dev2 >> }

InitScripts ==
    /\ prog = "scripts"
    /\ cap_files \in ScriptsFound
    /\ all_c = << >>
    /\ \E d \in DevContents, d2 \in UtilContents \cup {<< Stmt("asgn", "VendorId", "0x10DE") >>} :
           disk = [p \in Paths |-> IF p = Dev THEN d ELSE IF p = Dev2 THEN d2 ELSE << >>]
    /\ fstat \in [Paths -> FileStates]
    /\ TreeOK(cap_files)
    /\ dry \in BOOLEAN
    /\ profile \in ScriptsProfiles \cup {UnknownTier}
    /\ gpuPatches = << >>
    /\ arch = "" /\ max_workers = 0
    /\ pc = "run" /\ idx = 1
    /\ result = PatchResult
    /\ fut = << >> /\ lock = ""
    /\ wlog = {} /\ wfail = 0
    /\ eng = EngIdle /\ parts = NoParts
    /\ runs = 1
    /\ exitcode = -1

NextScripts == Scripts_cap_file \/ Scripts_finish \/ Scripts_apply_again

SpecScripts == InitScripts /\ [][NextScripts]_vars

\* ---- the concurrent driver (apply_patches) ----

Archs == {"x86_64", "arm64ec"}

\* device_patches of apply_patches
device_patches ==
    SHADER_PATCHES \o RT_PATCHES \o MESH_PATCHES \o VRS_PATCHES \o
    WAVE_PATCHES \o RESOURCE_PATCHES \o SHADER_OPS_PATCHES \o ENHANCED_PATCHES

\* the rule list a task names
Driver_patches(g) ==
    CASE g = "device" -> device_patches
      [] g = "PERF" -> PERF_PATCHES
      [] g = "x86_64" -> CPU_X86_64_PATCHES
      [] g = "arm64ec" -> CPU_ARM64EC_PATCHES

\* the list 'tasks' that apply_patches builds
Driver_tasks ==
    [i \in 1..Len(cap_files) |-> [p |-> cap_files[i], g |-> "device"]]
    \o [i \in 1..Len(all_c) |-> [p |-> all_c[i], g |-> "PERF"]]
    \o [i \in 1..Len(all_c) |-> [p |-> all_c[i], g |-> IF arch = "x86_64" THEN "x86_64" ELSE "arm64ec"]]

\* re.search(pattern, original): the first match in the content as read
Example(rule, original) ==
    LET hits == {i \in DOMAIN original : Matches(rule, original[i])}
    IN  IF hits = {} THEN << "n/a" >>
        ELSE << original[CHOOSE i \in hits : \A j \in hits : i <= j] >>

\* an iteration that puts its entry at the front of the change list (what the
\* loop does not do: it appends)
Driver_rule_step_prepending(acc, rule, dryFlag, path, original) ==
    IF Malformed(rule)
    THEN [acc EXCEPT !.errors = Append(@, << "regex error in", path >>)]
    ELSE LET matches == FindAll(rule, acc.content) IN
         IF matches > 0
         THEN [acc EXCEPT !.content = IF dryFlag THEN @ ELSE Sub(rule, @),
                          !.applied = @ + matches,
                          !.changes = << [pattern |-> rule.n, matches |-> matches,
                                          example |-> Example(rule, original)] >> \o @]
         ELSE [acc EXCEPT !.skipped = @ + 1]

\* one iteration of the loop of patch_file
Driver_rule_step(acc, rule, dryFlag, path, original) ==
    IF Malformed(rule)
    THEN [acc EXCEPT !.errors = Append(@, << "regex error in", path >>)]
    ELSE LET matches == FindAll(rule, acc.content) IN
         IF matches > 0
         THEN [acc EXCEPT !.content = IF dryFlag THEN @ ELSE Sub(rule, @),
                          !.applied = @ + matches,
                          !.changes = Append(@, [pattern |-> rule.n, matches |-> matches,
                                                 example |-> Example(rule, original)])]
         ELSE [acc EXCEPT !.skipped = @ + 1]

\* the loop 'for pattern, replacement in patches' of patch_file
RECURSIVE Driver_loop(_, _, _, _, _)
Driver_loop(acc, patches, dryFlag, path, original) ==
    IF patches = << >> THEN acc
    ELSE LET nxt == Driver_rule_step(acc, Head(patches), dryFlag, path, original)
         IN  CASE nxt.applied + nxt.skipped >= 0 ->
                      Driver_loop(nxt, Tail(patches), dryFlag, path, original)

\* what patch_file returns: (local_applied, local_skipped, local_errors, local_details)
TaskResult(a, s, e, d) == [a |-> a, s |-> s, e |-> e, d |-> d]

Queued == [st |-> "queued", orig |-> << >>, res |-> TaskResult(0, 0, << >>, << >>)]

\* the workers that are inside patch_file
Busy == {t \in DOMAIN fut : fut[t].st = "read"}

\* a worker takes the next task of the queue and runs patch_file up to and
\* including the read of the file
Driver_begin(t) ==
    /\ prog = "driver" /\ pc = "run"
    /\ fut[t].st = "queued"
    /\ \A u \in 1..(t - 1) : fut[u].st # "queued"
    /\ Cardinality(Busy) < max_workers
    /\ LET path == Driver_tasks[t].p IN
       fut' = [fut EXCEPT ![t] =
                 IF ~Exists(path)
                 THEN [st |-> "done", orig |-> << >>, res |-> TaskResult(0, 0, << >>, << >>)]
                 ELSE IF ~Readable(path)
                 THEN [st |-> "done", orig |-> << >>,
                       res |-> TaskResult(0, 0, << << "read error", path >> >>, << >>)]
                 ELSE [st |-> "read", orig |-> disk[path], res |-> @.res]]
    /\ UNCHANGED << prog, eng, parts, disk, fstat, dry, profile, gpuPatches, arch, max_workers,
                    cap_files, all_c, pc, idx, result, lock, wlog, wfail, runs, exitcode >>

\* 'if content != original and not dry_run' of patch_file
Driver_writes(original, content) == content # original /\ ~dry

\* a merge that overwrites the counters with those of the future (not what
\* the code does)
Driver_add_overwriting(acc, r) ==
    [acc EXCEPT !.applied = r.a,
                !.skipped = r.s,
                !.errors = @ \o r.e,
                !.details = @ \o r.d]

\* 'with _lock': the result of one future is added to the globals
Driver_add(acc, r) ==
    [acc EXCEPT !.applied = @ + r.a,
                !.skipped = @ + r.s,
                !.errors = @ \o r.e,
                !.details = @ \o r.d]

\* the rest of patch_file: the rules are applied to the content that was
\* read, the file is written if the content changed, the future completes
Driver_finish_task(t) ==
    /\ prog = "driver" /\ pc = "run"
    /\ fut[t].st = "read"
    /\ \E o \in {Driver_loop(Outcome(fut[t].orig), Driver_patches(Driver_tasks[t].g),
                             dry, Driver_tasks[t].p, fut[t].orig)} :
       LET path == Driver_tasks[t].p
           original == fut[t].orig
           writes == Driver_writes(original, o.content)
           werr == IF writes /\ ~Writable(path)
                   THEN << << "write error", path >> >> ELSE << >>
           details == IF o.changes # << >>
                      THEN << [file |-> path, path |-> path, changes |-> o.changes] >>
                      ELSE << >>
       IN  /\ IF writes /\ Writable(path)
              THEN /\ disk' = [disk EXCEPT ![path] = o.content]
                   /\ wlog' = wlog \cup {WriteRec(path, original, o.content)}
              ELSE UNCHANGED << disk, wlog >>
           /\ wfail' = IF writes /\ ~Writable(path) THEN wfail + 1 ELSE wfail
           /\ fut' = [fut EXCEPT ![t] =
                        [st |-> "done", orig |-> original,
                         res |-> TaskResult(o.applied, o.skipped, o.errors \o werr, details)]]
    /\ UNCHANGED << prog, eng, parts, fstat, dry, profile, gpuPatches, arch, max_workers,
                    cap_files, all_c, pc, idx, result, lock, runs, exitcode >>

\* the main thread takes a completed future from as_completed and enters
\* 'with _lock'
Driver_lock(t) ==
    /\ prog = "driver" /\ pc = "run"
    /\ fut[t].st = "done" /\ lock = ""
    /\ lock' = "main"
    /\ idx' = t
    /\ UNCHANGED << prog, eng, parts, disk, fstat, dry, profile, gpuPatches, arch, max_workers,
                    cap_files, all_c, pc, result, fut, wlog, wfail, runs, exitcode >>

\* the body of 'with _lock': the result of the future is added to the globals
Driver_merge ==
    /\ prog = "driver" /\ pc = "run"
    /\ lock = "main"
    /\ result' = Driver_add(result, fut[idx].res)
    /\ fut' = [fut EXCEPT ![idx].st = "merged"]
    /\ lock' = ""
    /\ idx' = 0
    /\ UNCHANGED << prog, eng, parts, disk, fstat, dry, profile, gpuPatches, arch, max_workers,
                    cap_files, all_c, pc, wlog, wfail, runs, exitcode >>

\* the end of apply_patches: 'return 1 if _errors else 0' becomes the exit code
Driver_finish ==
    /\ prog = "driver" /\ pc = "run"
    /\ \A t \in DOMAIN fut : fut[t].st = "merged"
    /\ pc' = "done"
    /\ exitcode' = IF result.errors # << >> THEN 1 ELSE 0
    /\ UNCHANGED << prog, eng, parts, disk, fstat, dry, profile, gpuPatches, arch, max_workers,
                    cap_files, all_c, idx, result, fut, lock, wlog, wfail, runs >>

\* apply_patches called once more: the globals are reset and the tasks are
\* submitted again
Driver_apply_again ==
    /\ prog = "driver" /\ pc = "done" /\ runs < MaxRuns
    /\ pc' = "run" /\ runs' = runs + 1
    /\ result' = PatchResult
    /\ fut' = [t \in DOMAIN fut |-> Queued]
    /\ UNCHANGED << prog, eng, parts, disk, fstat, dry, profile, gpuPatches, arch, max_workers,
                    cap_files, all_c, idx, lock, wlog, wfail, exitcode >>

\* the statements the first source file may hold before the first run: one
\* the device rules rewrite and one the PERF rules rewrite
DriverStmtU ==
    { Stmt("asgn", "data->HighestShaderModel", "D3D_SHADER_MODEL_6_0"),
      Stmt("def", "VKD3D_DEBUG", "1") }

DriverContents == SeqsUpTo(DriverStmtU, MaxStmts)

\* the other source file of the tree the driver runs on
DriverUtilContent ==
    << Stmt("call", "vkd3d_cpu_supports_avx", ""),
       Stmt("def", "VKD3D_ENABLE_AVX", "0") >>

\* what the globs of apply_patches return: << device_files, all_files >>
DriverFound ==
    { << << >>, << >> >>,
      << << Dev >>, << Dev >> >>,
      << << >>, << Dev, Util >> >> }

InitDriver ==
    /\ prog = "driver"
    /\ \E fd \in DriverFound : cap_files = fd[1] /\ all_c = fd[2]
    /\ \E d \in DriverContents :
           disk = [p \in Paths |-> IF p = Dev THEN d
                                   ELSE IF p = Util /\ Len(all_c) = 2 THEN DriverUtilContent
                                   ELSE << >>]
    /\ \E s \in FileStates : fstat = [p \in Paths |-> IF p = Dev THEN s ELSE "ok"]
    /\ Len(all_c) = 2 => fstat[Dev] = "ok"
    /\ TreeOK(all_c)
    /\ dry \in BOOLEAN
    /\ profile = ""
    /\ gpuPatches = << >>
    /\ arch \in Archs
    /\ max_workers \in 1..MaxWorkers
    /\ pc = "run" /\ idx = 0
    /\ result = PatchResult
    /\ fut = [t \in 1..Len(Driver_tasks) |-> Queued]
    /\ lock = ""
    /\ wlog = {} /\ wfail = 0
    /\ eng = EngIdle /\ parts = NoParts
    /\ runs = 1
    /\ exitcode = -1

NextDriver ==
    \/ \E t \in DOMAIN fut : Driver_begin(t)
    \/ \E t \in DOMAIN fut : Driver_finish_task(t)
    \/ \E t \in DOMAIN fut : Driver_lock(t)
    \/ Driver_merge
    \/ Driver_finish
    \/ Driver_apply_again

SpecDriver == InitDriver /\ [][NextDriver]_vars


\* ---- the engine called on its own: one content, one rule list ----

EngineVariants == {"v3x", "scripts", "driver"}

\* the statements of the content handed to the engine
EngineStmtU ==
    { Stmt("asgn", "data->HighestShaderModel", "D3D_SHADER_MODEL_6_0"),
      Stmt("def", "VKD3D_DEBUG", "1"),
      Stmt("def3", "VKD3D_DEBUG", "0"),
      Stmt("def", "VKD3D_ENABLE_AVX", "0"),
      Stmt("call", "vkd3d_cpu_supports_avx", "") }

EngineContents == SeqsUpTo(EngineStmtU, MaxStmts)

\* single rules of the three catalogs, and a rule whose pattern does not compile
BadRule == Rule("bad", "(", "", "bad")
EngineRuleU == { SM_P[1], PF_P[1], PERF_PATCHES[1], BadRule }

\* the rule lists handed to the engine: the lists the program itself hands to
\* it, and every short list of single rules
EngineLists(variant) ==
    SeqsUpTo(EngineRuleU, MaxRules) \cup
    CASE variant = "v3x" -> { SM_P, CP_P, PF_P, CP_P \o PF_P }
      [] variant = "scripts" -> { Scripts_SM_P, Scripts_GPU_P }
      [] variant = "driver" -> { device_patches, PERF_PATCHES,
                                 CPU_X86_64_PATCHES, CPU_ARM64EC_PATCHES }

\* one call of the engine of a program
EngineCall(variant, content, rules, dryFlag) ==
    CASE variant = "v3x" -> V3X_apply_content(content, rules, dryFlag)
      [] variant = "scripts" -> Scripts_apply_content(content, << rules >>, dryFlag)
      [] variant = "driver" -> Driver_loop(Outcome(content), rules, dryFlag, Dev, content)

\* the content the next application starts from: the output of the last one
EngineContent ==
    IF eng.outs = << >> THEN eng.input ELSE eng.outs[Len(eng.outs)].content

\* the engine is applied once more, to the output of its last application
Engine_apply ==
    /\ prog = "engine" /\ Len(eng.outs) < MaxRuns
    /\ eng' = [eng EXCEPT !.outs =
                  Append(@, EngineCall(eng.variant, EngineContent, eng.rules, dry))]
    /\ UNCHANGED << prog, parts, disk, fstat, dry, profile, gpuPatches, arch, max_workers,
                    cap_files, all_c, pc, idx, result, fut, lock, wlog, wfail,
                    runs, exitcode >>

InitEngine ==
    /\ prog = "engine"
    /\ \E v \in EngineVariants :
         \E c \in EngineContents, rs \in EngineLists(v) :
            eng = [variant |-> v, rules |-> rs, input |-> c, outs |-> << >>]
    /\ dry \in BOOLEAN
    /\ disk = [p \in Paths |-> << >>]
    /\ fstat = [p \in Paths |-> "ok"]
    /\ profile = "" /\ gpuPatches = << >> /\ arch = "" /\ max_workers = 0
    /\ cap_files = << >> /\ all_c = << >>
    /\ pc = "run" /\ idx = 0
    /\ result = PatchResult
    /\ fut = << >> /\ lock = ""
    /\ wlog = {} /\ wfail = 0
    /\ parts = NoParts
    /\ runs = 1
    /\ exitcode = -1

NextEngine == Engine_apply

SpecEngine == InitEngine /\ [][NextEngine]_vars

\* ---- PatchResult.merge called on its own ----

\* number of partial results that are merged
MaxParts == 3

\* a merge that forgets the failed counter of the other result (not what the
\* code does)
merge_without_failed(self, other) ==
    [applied |-> self.applied + other.applied,
     skipped |-> self.skipped + other.skipped,
     failed |-> self.failed,
     errors |-> self.errors \o other.errors,
     warnings |-> self.warnings \o other.warnings,
     details |-> self.details \o other.details]

\* PatchResult.merge(self, other): the value of self after the call
merge(self, other) ==
    [applied |-> self.applied + other.applied,
     skipped |-> self.skipped + other.skipped,
     failed |-> self.failed + other.failed,
     errors |-> self.errors \o other.errors,
     warnings |-> self.warnings \o other.warnings,
     details |-> self.details \o other.details]

\* the partial results that are merged
PartialU ==
    { PatchResult,
      [PatchResult EXCEPT !.applied = 1,
                          !.details = << [f |-> Dev, p |-> Dev,
                                          ch |-> << [n |-> "sm69", c |-> 1] >>] >>],
      [PatchResult EXCEPT !.skipped = 1, !.failed = 1,
                          !.errors = << << "W", Dev >> >>,
                          !.warnings = << "w1" >>],
      [PatchResult EXCEPT !.applied = 2, !.skipped = 1,
                          !.errors = << << "R", Util >>, << "RE", "bad" >> >>],
      [PatchResult EXCEPT !.failed = 1,
                          !.errors = << << "RE", "bad" >>, << "W", Dev >> >>,
                          !.warnings = << "w2", "w1" >>] }

\* s.merge-d into t: parts.cur[t].merge(parts.cur[s]) for t > 0, and
\* result.merge(parts.cur[s]) for t = 0, the empty PatchResult the partial
\* results are collected in.  The other result is not changed by the call and
\* is not used again.
Merge_step(t, s) ==
    /\ prog = "merge"
    /\ s \in parts.live /\ t \in (parts.live \cup {0}) \ {s}
    /\ IF t = 0
       THEN /\ result' = merge(result, parts.cur[s])
            /\ parts' = [parts EXCEPT !.live = @ \ {s}]
       ELSE /\ parts' = [parts EXCEPT !.cur[t] = merge(@, parts.cur[s]),
                                      !.live = @ \ {s}]
            /\ UNCHANGED result
    /\ UNCHANGED << prog, eng, disk, fstat, dry, profile, gpuPatches, arch,
                    max_workers, cap_files, all_c, pc, idx, fut, lock, wlog,
                    wfail, runs, exitcode >>

InitMerge ==
    /\ prog = "merge"
    /\ \E o \in [1..MaxParts -> PartialU] :
           parts = [orig |-> o, cur |-> o, live |-> 1..MaxParts]
    /\ result = PatchResult
    /\ eng = EngIdle
    /\ dry = FALSE
    /\ disk = [p \in Paths |-> << >>]
    /\ fstat = [p \in Paths |-> "ok"]
    /\ profile = "" /\ gpuPatches = << >> /\ arch = "" /\ max_workers = 0
    /\ cap_files = << >> /\ all_c = << >>
    /\ pc = "run" /\ idx = 0
    /\ fut = << >> /\ lock = ""
    /\ wlog = {} /\ wfail = 0
    /\ runs = 1
    /\ exitcode = -1

NextMerge == \E t \in 0..MaxParts, s \in 1..MaxParts : Merge_step(t, s)

SpecMerge == InitMerge /\ [][NextMerge]_vars

\* ---- the whole model ----

Init == InitV3X \/ InitScripts \/ InitDriver \/ InitEngine \/ InitMerge

Next == NextV3X \/ NextScripts \/ NextDriver \/ NextEngine \/ NextMerge

Spec == Init /\ [][Next]_vars

\* ---- properties of the patchers ----

\* the paths of a sequence of paths
PathsOf(files) == {files[i] : i \in DOMAIN files}

\* how often x occurs in the sequence s
Count(x, s) == Cardinality({i \in DOMAIN s : s[i] = x})

\* C1: in the concurrent driver, tasks that target the same path are
\* serialized: while one task is between its read of a path and its write
\* (or its decision not to write), no other task has read the same path and
\* is still to write it.
C1_SamePathSerialized ==
    \A t, u \in DOMAIN fut :
        (prog = "driver" /\ t # u /\ Driver_tasks[t].p = Driver_tasks[u].p
            /\ fut[t].st = "read")
        => fut[u].st # "read"

\* C2: a run with dry-run set never writes a file: no step of a dry run
\* changes the bytes of any file or performs a write, whatever the match
\* counts are.
C2_DryRunNeverWrites == [][dry => (disk' = disk /\ wlog' = wlog)]_vars

\* a dry run has finished, has counted matches and has written nothing
C2_Witness ==
    /\ prog \in {"v3x", "scripts", "driver"} /\ dry /\ pc = "done"
    /\ result.applied > 0 /\ result.details # << >>
    /\ wlog = {}

\* C3: a file is written only if the content after applying the rules differs
\* from the content that was read, and a second run over the files of a first
\* run writes nothing.
C3_WriteOnlyWhenChanged ==
    \A w \in wlog : w.orig # w.new /\ w.run = 1

\* ---- properties of the engine called on its own ----

\* the content an application of the engine started from
EngineInput(i) == IF i = 1 THEN eng.input ELSE eng.outs[i - 1].content

\* the name and the match count of an entry of a change list
ChangeName(c) ==
    CASE eng.variant = "v3x" -> c.n
      [] eng.variant = "scripts" -> c.patch
      [] eng.variant = "driver" -> c.pattern

ChangeCount(c) ==
    CASE eng.variant = "v3x" -> c.c
      [] eng.variant = "scripts" -> c.count
      [] eng.variant = "driver" -> c.matches

ChangeNames(o) == {ChangeName(o.changes[j]) : j \in DOMAIN o.changes}

RECURSIVE SumCounts(_)
SumCounts(changes) ==
    IF changes = << >> THEN 0
    ELSE ChangeCount(Head(changes)) + SumCounts(Tail(changes))

\* rules that match the shape of a statement whatever its value, and the
\* rules of PF_P
ShapeNames == {eng.rules[j].n : j \in {k \in DOMAIN eng.rules :
                                          eng.rules[k].k \in {"asgn", "defany"}}}
TrailingOneNames == {eng.rules[j].n : j \in {k \in DOMAIN eng.rules :
                                          eng.rules[k].k = "defd1"}}

\* the pairs (first application, second application on its output)
Reapplied == {i \in DOMAIN eng.outs : i > 1}

C5_AppliedPlusSkipped ==
    prog = "engine" =>
        \A i \in DOMAIN eng.outs :
            eng.outs[i].applied + eng.outs[i].skipped = Len(eng.rules)

\* C5: every rule of a call ends in exactly one of a change entry, a skip or
\* an error entry; applied is the sum of the match counts of the change
\* entries, each at least 1; applied + skipped is the number of rules when no
\* rule raised and every matching rule matched once.
C5_Conservation ==
    prog = "engine" =>
        \A i \in DOMAIN eng.outs :
            LET o == eng.outs[i] IN
            /\ Len(o.changes) + o.skipped + Len(o.errors) = Len(eng.rules)
            /\ o.applied = SumCounts(o.changes)
            /\ \A j \in DOMAIN o.changes : ChangeCount(o.changes[j]) >= 1
            /\ (o.errors = << >> /\ o.applied = Len(o.changes))
                   => o.applied + o.skipped = Len(eng.rules)

\* a call in which one rule raised and another matched twice
C5_Witness ==
    /\ prog = "engine"
    /\ \E i \in DOMAIN eng.outs :
          /\ eng.outs[i].errors # << >>
          /\ \E j \in DOMAIN eng.outs[i].changes :
                ChangeCount(eng.outs[i].changes[j]) >= 2

\* ---- properties of the runs ----

\* the files the locator found that cannot be read
Discovered == PathsOf(cap_files) \cup PathsOf(all_c)
Unreadable == {p \in Discovered : Exists(p) /\ ~Readable(p)}

\* the read errors the result holds
ReadErrors == {i \in DOMAIN result.errors : result.errors[i][1] = "R"}
WriteErrors == {i \in DOMAIN result.errors : result.errors[i][1] = "W"}

\* C6: when exactly one of the discovered files cannot be read, the run does
\* not abort and its result holds exactly one read error.
C6_ReadFailureIsolated ==
    (prog \in {"v3x", "scripts"} /\ runs = 1 /\ Cardinality(Unreadable) = 1) =>
        /\ pc # "crashed"
        /\ Cardinality(ReadErrors) <= 1
        /\ pc = "done" => Cardinality(ReadErrors) = 1

\* C7: every failed write of a changed file is recorded as a W error and
\* counted in failed, the run goes on to its end, and its outcome is
\* unsuccessful.
C7_WriteFailureHandled ==
    prog \in {"v3x", "scripts"} =>
        /\ result.failed = wfail
        /\ Cardinality(WriteErrors) = wfail
        /\ wfail > 0 => pc # "crashed"
        /\ (wfail > 0 /\ pc = "done") => exitcode = 1

\* the outcome of a call of the engine without the rules that raise
EngineGoodRules == SelectSeq(eng.rules, LAMBDA r : ~Malformed(r))
EngineBadRules == SelectSeq(eng.rules, Malformed)

\* C8: a rule whose pattern does not compile records one error entry that
\* carries the rule's name (RE:<name>), and every other rule of the call is
\* applied exactly as if the bad rule were absent.
C8_RuleErrorIsolated ==
    prog = "engine" =>
        \A i \in DOMAIN eng.outs :
            LET o == eng.outs[i]
                ref == EngineCall(eng.variant, EngineInput(i), EngineGoodRules, dry)
            IN  /\ o.errors = [j \in DOMAIN EngineBadRules |->
                                   << "RE", EngineBadRules[j].n >>]
                /\ o.content = ref.content
                /\ o.applied = ref.applied
                /\ o.skipped = ref.skipped
                /\ o.changes = ref.changes

\* C9: at the end of every run (of the V3X patcher, of the driver, and of the
\* script when its run reaches its end) the exit code is 0 if and only if
\* failed = 0 and the error list is empty.
C9_ExitContract ==
    pc = "done" =>
        (exitcode = 0 <=> (result.failed = 0 /\ result.errors = << >>))

\* a run that ended unsuccessful by its error list alone
C9_Witness ==
    /\ pc = "done" /\ exitcode = 1
    /\ result.failed = 0 /\ result.errors # << >>
    /\ result.applied > 0

\* the sum of f over the futures that have been merged
RECURSIVE MergedSum(_, _)
MergedSum(f(_), t) ==
    IF t = 0 THEN 0
    ELSE (IF fut[t].st = "merged" THEN f(fut[t].res) ELSE 0) + MergedSum(f, t - 1)

TaskApplied(r) == r.a
TaskSkipped(r) == r.s

\* every entry of an error or detail list of a merged future, or of the result
AllErrors == PathsOf(result.errors) \cup
             UNION {PathsOf(fut[t].res.e) : t \in DOMAIN fut}
AllDetails == PathsOf(result.details) \cup
              UNION {PathsOf(fut[t].res.d) : t \in DOMAIN fut}

Aggregated ==
    prog = "driver" =>
        /\ result.applied = MergedSum(TaskApplied, Len(fut))
        /\ result.skipped = MergedSum(TaskSkipped, Len(fut))
        /\ \A x \in AllErrors :
              Count(x, result.errors) =
                 MergedSum(LAMBDA r : Count(x, r.e), Len(fut))
        /\ \A x \in AllDetails :
              Count(x, result.details) =
                 MergedSum(LAMBDA r : Count(x, r.d), Len(fut))

\* the accumulator changes in the merge step, under the lock, or is reset when
\* apply_patches starts again
MergeOnly ==
    (prog = "driver" /\ result' # result) =>
        \/ lock = "main" /\ lock' = ""
        \/ pc = "done" /\ pc' = "run" /\ result' = PatchResult

\* C10: at every point of a concurrent run the shared counters are the sums
\* over the merged tasks and the error and detail lists hold exactly their
\* entries (as multisets), so at the end they are those of all tasks; the
\* accumulator is changed only in the lock-guarded merge step.
C10_Aggregation == [](Aggregated) /\ [][MergeOnly]_vars

\* a run with two workers has finished and merged the outcomes of several
\* tasks that found matches
C10_Witness ==
    /\ prog = "driver" /\ pc = "done" /\ max_workers = 2
    /\ Len(result.details) >= 2
    /\ result.applied >= 2 /\ result.skipped > 0

\* ---- properties of PatchResult.merge ----

\* the results that still hold entries: the collecting result and the partial
\* results not yet merged into another
RECURSIVE LiveSum(_, _)
LiveSum(f(_), S) ==
    IF S = {} THEN 0
    ELSE LET i == CHOOSE j \in S : TRUE
         IN  f(parts.cur[i]) + LiveSum(f, S \ {i})

RECURSIVE OrigSum(_, _)
OrigSum(f(_), n) ==
    IF n = 0 THEN 0 ELSE f(parts.orig[n]) + OrigSum(f, n - 1)

FieldApplied(r) == r.applied
FieldSkipped(r) == r.skipped
FieldFailed(r) == r.failed

\* whatever the order and the grouping of the merges so far, nothing is lost
\* and nothing is counted twice
MergeConserves ==
    prog = "merge" =>
        LET n == Len(parts.orig) IN
        /\ result.applied + LiveSum(FieldApplied, parts.live) = OrigSum(FieldApplied, n)
        /\ result.skipped + LiveSum(FieldSkipped, parts.live) = OrigSum(FieldSkipped, n)
        /\ result.failed + LiveSum(FieldFailed, parts.live) = OrigSum(FieldFailed, n)
        /\ PathsOf(result.errors) \cup UNION {PathsOf(parts.cur[i].errors) : i \in parts.live}
               = UNION {PathsOf(parts.orig[i].errors) : i \in 1..n}
        /\ PathsOf(result.warnings) \cup UNION {PathsOf(parts.cur[i].warnings) : i \in parts.live}
               = UNION {PathsOf(parts.orig[i].warnings) : i \in 1..n}

\* one merge appends the entries of the other result to those of self
MergeAppends ==
    prog = "merge" =>
        /\ result' # result =>
              \E s \in parts.live :
                  /\ result'.errors = result.errors \o parts.cur[s].errors
                  /\ result'.warnings = result.warnings \o parts.cur[s].warnings
                  /\ result'.details = result.details \o parts.cur[s].details
        /\ \A t \in parts.live :
              parts'.cur[t] # parts.cur[t] =>
                  \E s \in parts.live \ {t} :
                      /\ parts'.cur[t].errors = parts.cur[t].errors \o parts.cur[s].errors
                      /\ parts'.cur[t].warnings =
                             parts.cur[t].warnings \o parts.cur[s].warnings
                      /\ parts'.cur[t].details = parts.cur[t].details \o parts.cur[s].details

\* C11: merging the partial results into an empty PatchResult in any order
\* and any grouping yields the same applied, skipped and failed counters (the
\* sums) and the same error and warning contents as sets; within one merge the
\* entries of self come first, then those of the other, in their order.
C11_MergeOrderFree == [](MergeConserves) /\ [][MergeAppends]_vars

\* all partial results have been merged, one of them through another partial
\* result, and counters and lists have been added up
C11_Witness ==
    /\ prog = "merge" /\ parts.live = {}
    /\ \E i \in DOMAIN parts.cur : parts.cur[i] # parts.orig[i]
    /\ result.failed >= 2 /\ result.applied >= 2
    /\ Len(result.errors) >= 3 /\ Len(result.warnings) >= 2

\* ---- further properties of the engine called on its own ----

\* C12: the engine run with dry-run returns the same applied count, the same
\* skipped count and the same change list as the engine run without dry-run
\* on the same content with the same rules.
C12_DryRunSameBookkeeping ==
    (prog = "engine" /\ eng.outs # << >>) =>
        LET o == eng.outs[1]
            other == EngineCall(eng.variant, eng.input, eng.rules, ~dry)
        IN  /\ o.applied = other.applied
            /\ o.skipped = other.skipped
            /\ o.changes = other.changes

\* ---- properties of the tiers ----

\* C13: a tier outside the known set is a configuration error raised before
\* any file is read or written, and the run ends with a non-zero exit code: no
\* file is processed, nothing is counted, nothing is written.
C13_UnknownTierFailsFast ==
    (prog = "scripts" /\ profile \notin ScriptsProfiles) =>
        /\ idx = 1 /\ wlog = {}
        /\ result = PatchResult
        /\ pc # "run" => exitcode # 0

\* the tiers ordered low to high
TierRank(p) ==
    CASE p = "p3" -> 1 [] p = "p7" -> 2 [] p = "p9" -> 3 [] p = "high" -> 4

RangeOf(s) == {s[i] : i \in DOMAIN s}

IsPrefix(s, t) == Len(s) <= Len(t) /\ SubSeq(t, 1, Len(s)) = s

\* the run's tier selects every group a lower tier selects, the lower tier's
\* list first
Monotone(tiers, get_patches(_)) ==
    \A q \in tiers :
        TierRank(q) <= TierRank(profile) =>
            /\ RangeOf(get_patches(q)) \subseteq RangeOf(get_patches(profile))
            /\ IsPrefix(get_patches(q), get_patches(profile))

\* C14: in every run with a known tier, the groups the run's tier selects are
\* a superset of the groups of every lower tier, and the lower tier's list is a
\* prefix of the list of the run's tier (p3, p7, p9 in V3X; p3, p7, p9, high in
\* the script).
C14_ProfileMonotone ==
    /\ prog = "v3x" => Monotone(PatchProfile, V3X_get_patches)
    /\ (prog = "scripts" /\ profile \in ScriptsProfiles) =>
           Monotone(ScriptsProfiles, Scripts_get_patches)

\* a run of the top tier of V3X has ended after applying rules of its list,
\* which strictly extends the lists of p3 and p7
C14_Witness ==
    /\ prog = "v3x" /\ profile = "p9" /\ pc = "done"
    /\ result.applied > 0
    /\ Len(V3X_get_patches("p3")) < Len(V3X_get_patches("p7"))
    /\ Len(V3X_get_patches("p7")) < Len(V3X_get_patches("p9"))

\* ---- properties of a run as a whole ----

\* the locator found no target file
NoFiles == cap_files = << >> /\ all_c = << >>

\* a run on no file ends as a success with nothing counted
NoOpSuccess ==
    /\ exitcode = 0
    /\ result.applied = 0 /\ result.skipped = 0 /\ result.failed = 0
    /\ result.errors = << >>

\* C15: when the locator finds no target file, the run ends with exit code 0,
\* applied = skipped = failed = 0 and an empty error list, and the result holds
\* a warning that records the emptiness.
C15_ZeroFilesWarned ==
    (prog \in {"v3x", "driver"} /\ NoFiles /\ pc = "done") =>
        NoOpSuccess /\ result.warnings # << >>

\* a run is at its start: nothing of it has been processed yet
RunStart ==
    \/ prog = "v3x" /\ pc = "run" /\ idx = 1
    \/ prog = "driver" /\ pc = "run" /\ \A t \in DOMAIN fut : fut[t] = Queued

\* C16: every run starts from an empty accumulator, also the second run on the
\* same patcher object or in the same process: at the start of a run the result
\* holds no count, error or detail of an earlier run.
C16_FreshResultPerRun == RunStart => result = PatchResult

\* C17: a rule whose pattern does not compile is rejected when the rule is
\* constructed, so the engine is never handed one: no call of the engine on a
\* file's content records a pattern-compile error.
C17_NoCompileErrorWhilePatching ==
    prog = "engine" =>
        \A i \in DOMAIN eng.outs : eng.outs[i].errors = << >>

\* the rule lists of the driver's tasks on a file of both passes
PassLists == << "device", "PERF", IF arch = "x86_64" THEN "x86_64" ELSE "arm64ec" >>

\* the orders in which the passes can follow each other
PassOrders ==
    { [i \in 1..3 |-> PassLists[f[i]]] :
        f \in {g \in [1..3 -> 1..3] : \A i, j \in 1..3 : i # j => g[i] # g[j]} }

\* the passes of order gs run one after the other on a file, each on the
\* content the one before it left
RECURSIVE PassesInTurn(_, _)
PassesInTurn(acc, gs) ==
    IF gs = << >> THEN acc
    ELSE LET o == Driver_loop(Outcome(acc.content), Driver_patches(Head(gs)),
                              FALSE, Dev, acc.content)
         IN  CASE o.applied >= 0 ->
                 PassesInTurn([content |-> o.content,
                               applied |-> acc.applied + o.applied,
                               skipped |-> acc.skipped + o.skipped], Tail(gs))

\* the file of both passes, at the end of a run that writes
InBothPasses ==
    /\ prog = "driver" /\ pc = "done" /\ ~dry
    /\ cap_files = << Dev >> /\ all_c = << Dev >>
    /\ fstat[Dev] = "ok"

\* C18: a file present in both the capability pass and the blanket pass is
\* patched once per pass into the same result, and its final content and the
\* counters are those of the passes run one after the other on the content the
\* first of them read, in whichever order.
C18_PassIndependence ==
    InBothPasses =>
        \E t \in DOMAIN fut :
            \A gs \in PassOrders :
                LET o == PassesInTurn([content |-> fut[t].orig, applied |-> 0,
                                       skipped |-> 0], gs)
                IN  /\ disk[Dev] = o.content
                    /\ result.applied = o.applied
                    /\ result.skipped = o.skipped

\* ---- scenarios ----

DebugOne == Stmt("def", "VKD3D_DEBUG", "1")
DebugZero == Stmt("def", "VKD3D_DEBUG", "0")

\* the engine runs the performance rule group of V3X or of the driver, whose
\* first rule is the one for VKD3D_DEBUG
PerfGroupRun == prog = "engine" /\ ~dry /\ eng.rules \in {PF_P, PERF_PATCHES}

\* C19: under the performance rule group a line '#define VKD3D_DEBUG 1' is
\* rewritten to '#define VKD3D_DEBUG 0'; a line '#define VKD3D_DEBUG 0' is
\* matched again by the same rule (match count > 0) and is left as it is.
C19_MacroScenario ==
    PerfGroupRun =>
        \A i \in DOMAIN eng.outs :
            \A j \in DOMAIN EngineInput(i) :
                /\ EngineInput(i)[j] = DebugOne => eng.outs[i].content[j] = DebugZero
                /\ EngineInput(i)[j] = DebugZero =>
                       /\ eng.rules[1].n \in ChangeNames(eng.outs[i])
                       /\ eng.outs[i].content[j] = DebugZero

\* the statements of a content that assign to data->HighestShaderModel
SmAssignments(content) ==
    {j \in DOMAIN content :
        content[j].k = "asgn" /\ content[j].v = "data->HighestShaderModel"}

\* the entries of a change list that the rule named n made
EntriesOf(n, o) == {j \in DOMAIN o.changes : ChangeName(o.changes[j]) = n}

\* the rules of the list other than its first
OtherRules == {k \in DOMAIN eng.rules : k > 1}

\* the V3X engine runs the shader-model group, not as a dry run
SmGroupRun == prog = "engine" /\ eng.variant = "v3x" /\ ~dry /\ eng.rules = SM_P

\* C20: on a content with one assignment to data->HighestShaderModel, whatever
\* its right-hand side, the shader-model group rewrites the right-hand side to
\* D3D_SHADER_MODEL_6_9, its rule sm69 reports exactly one match and adds one
\* to applied, and only the rules that match nothing are counted as skipped.
C20_ShaderModelScenario ==
    SmGroupRun =>
        \A i \in DOMAIN eng.outs :
            LET cin == EngineInput(i)
                o == eng.outs[i]
            IN  Cardinality(SmAssignments(cin)) = 1 =>
                    /\ \A j \in SmAssignments(cin) :
                           o.content[j] = Stmt("asgn", "data->HighestShaderModel",
                                               "D3D_SHADER_MODEL_6_9")
                    /\ Cardinality(EntriesOf("sm69", o)) = 1
                    /\ \A j \in EntriesOf("sm69", o) : ChangeCount(o.changes[j]) = 1
                    /\ o.applied = 1 + SumCounts(SelectSeq(o.changes,
                                                 LAMBDA c : ChangeName(c) # "sm69"))
                    /\ o.skipped = Cardinality({k \in OtherRules :
                                                   FindAll(eng.rules[k], cin) = 0})
                    /\ o.errors = << >>

\* the group has been applied to an assignment with another right-hand side
\* and then to the assignment it wrote, with one match each time
C20_Witness ==
    /\ SmGroupRun /\ Len(eng.outs) = 2
    /\ Cardinality(SmAssignments(eng.input)) = 1
    /\ \E j \in SmAssignments(eng.input) :
           /\ eng.input[j].r = "D3D_SHADER_MODEL_6_0"
           /\ eng.outs[1].content[j].r = "D3D_SHADER_MODEL_6_9"
    /\ eng.outs[1].applied = 1 /\ eng.outs[2].applied = 1
    /\ eng.outs[1].skipped = 2

\* ---- order of application ----

\* the content after the first k rules of a list have rewritten it in turn
RECURSIVE Evolved(_, _, _)
Evolved(rules, k, content) ==
    IF k = 0 THEN content
    ELSE LET before == Evolved(rules, k - 1, content)
         IN  IF Malformed(rules[k]) THEN before ELSE Sub(rules[k], before)

\* for every rule of the list that compiles, its matches in the content the
\* rules before it have produced
CountsInTurn(rules, content) ==
    [k \in DOMAIN rules |->
        IF Malformed(rules[k]) THEN -1
        ELSE FindAll(rules[k], Evolved(rules, k - 1, content))]

\* the match counts of a change list, in its order
CountsOf(changes) == [j \in DOMAIN changes |-> ChangeCount(changes[j])]

\* C21: in every call of the engine the rules are applied in order and the
\* match count of each rule is taken on the content that all earlier rules of
\* the call have produced: the change list holds exactly the positive counts
\* in turn, and the rules whose count in turn is 0 are the skipped ones.
C21_CountsOnEvolvingContent ==
    prog = "engine" =>
        \A i \in DOMAIN eng.outs :
            LET counts == CountsInTurn(eng.rules, EngineInput(i))
            IN  /\ CountsOf(eng.outs[i].changes) = SelectSeq(counts, LAMBDA c : c > 0)
                /\ eng.outs[i].skipped = Len(SelectSeq(counts, LAMBDA c : c = 0))

\* a is b with some of its elements left out, the others in b's order
RECURSIVE IsSubseq(_, _)
IsSubseq(a, b) ==
    IF a = << >> THEN TRUE
    ELSE IF b = << >> THEN FALSE
    ELSE IF Head(a) = Head(b) THEN IsSubseq(Tail(a), Tail(b))
    ELSE IsSubseq(a, Tail(b))

\* the names of the rules of a list, in its order
RuleNames(rules) == [k \in DOMAIN rules |-> rules[k].n]

RECURSIVE Flatten(_)
Flatten(groups) ==
    IF groups = << >> THEN << >> ELSE Head(groups) \o Flatten(Tail(groups))

\* the rule names of the entries of a change list, in its order
EntryNames(changes) ==
    [j \in DOMAIN changes |->
        CASE prog = "v3x" -> changes[j].n
          [] prog = "scripts" -> changes[j].patch
          [] prog = "driver" -> changes[j].pattern
          [] prog = "engine" -> ChangeName(changes[j])]

\* the rule lists of the calls that can have made the detail record d
ListsFor(d) ==
    CASE prog = "v3x" ->
             {Group(g) : g \in RangeOf(V3X_get_patches(profile)) \cup {"gpu", "CP_P", "PF_P"}}
      [] prog = "scripts" -> {Flatten(Scripts_patches(profile))}
      [] prog = "driver" ->
             {Driver_patches(Driver_tasks[t].g) :
                 t \in {u \in DOMAIN fut : Driver_tasks[u].p = d.path}}
      [] OTHER -> {}

\* the change list of a detail record
ChangesOf(d) == IF prog = "v3x" THEN d.ch ELSE d.changes

\* the detail records of the result and of the futures not yet merged
AllRecords ==
    RangeOf(result.details) \cup
    (IF prog = "driver"
     THEN UNION {RangeOf(fut[t].res.d) : t \in DOMAIN fut} ELSE {})

\* C22: in every state of every run and schedule, the entries of each file's
\* change record appear in the order of the rules of the task that made it;
\* the same holds for the change list of every call of the engine.
C22_ChangeListInRuleOrder ==
    /\ prog \in {"v3x", "scripts", "driver"} =>
           \A d \in AllRecords :
               \E rules \in ListsFor(d) :
                   IsSubseq(EntryNames(ChangesOf(d)), RuleNames(rules))
    /\ prog = "engine" =>
           \A i \in DOMAIN eng.outs :
               IsSubseq(EntryNames(eng.outs[i].changes), RuleNames(eng.rules))

\* a run of the driver with two workers has ended with a change record of two
\* entries, whose order is that of the rules and not that of the lines matched
C22_Witness ==
    /\ prog = "driver" /\ pc = "done" /\ max_workers = 2 /\ arch = "arm64ec"
    /\ \E d \in RangeOf(result.details) :
           /\ Len(d.changes) = 2
           /\ d.changes[1].pattern = "VKD3D_ENABLE_AVX"
           /\ d.changes[2].pattern = "vkd3d_cpu_supports_avx"

\* ---- concurrent tasks on one file ----

\* the tasks of the driver that target path p
TasksOn(p) == {t \in DOMAIN fut : Driver_tasks[t].p = p}

\* the orders in which the tasks of a set can follow each other
OrdersOf(ts) ==
    {f \in [1..Cardinality(ts) -> ts] :
        \A i, j \in 1..Cardinality(ts) : i # j => f[i] # f[j]}

\* the content of p after the tasks of order ord have rewritten it in turn
RECURSIVE TasksInTurn(_, _, _)
TasksInTurn(content, p, ord) ==
    IF ord = << >> THEN content
    ELSE LET o == Driver_loop(Outcome(content), Driver_patches(Driver_tasks[Head(ord)].g),
                              FALSE, p, content)
         IN  CASE o.applied >= 0 -> TasksInTurn(o.content, p, Tail(ord))

\* a concurrent run that writes has ended without an error
CleanRunEnded ==
    prog = "driver" /\ pc = "done" /\ ~dry /\ result.errors = << >>

\* C23: after a non-dry concurrent run without an error, the final content of
\* every file that exists is what the rule sets of all tasks on that file produce one
\* after the other, in some order, from the content one of them read: no
\* rewrite of a task is overwritten by a task that read the file before it.
C23_NoLostUpdate ==
    CleanRunEnded =>
        \A p \in {q \in PathsOf(all_c) : Exists(q)} :
            \E t \in TasksOn(p) :
                \E ord \in OrdersOf(TasksOn(p)) :
                    disk[p] = TasksInTurn(fut[t].orig, p, ord)

\* ---- the counters and the detail records ----

\* the match counts of the entries of a detail record's change list
RecordCounts(d) ==
    [j \in DOMAIN ChangesOf(d) |->
        CASE prog = "v3x" -> ChangesOf(d)[j].c
          [] prog = "scripts" -> ChangesOf(d)[j].count
          [] prog = "driver" -> ChangesOf(d)[j].matches]

RECURSIVE SumSeq(_)
SumSeq(s) == IF s = << >> THEN 0 ELSE Head(s) + SumSeq(Tail(s))

\* the sum of all match counts over the detail records of a list
RECURSIVE RecordedMatches(_)
RecordedMatches(details) ==
    IF details = << >> THEN 0
    ELSE SumSeq(RecordCounts(Head(details))) + RecordedMatches(Tail(details))

\* C24: in every state of a run every detail record has a non-empty change
\* list whose match counts are all >= 1, and once the run has finished the
\* applied counter is the sum of all match counts over all detail records.
C24_AppliedIsRecordedMatches ==
    prog \in {"v3x", "scripts", "driver"} =>
        /\ \A d \in AllRecords :
               /\ ChangesOf(d) # << >>
               /\ \A j \in DOMAIN RecordCounts(d) : RecordCounts(d)[j] >= 1
        /\ pc \in {"done", "crashed"} =>
               result.applied = RecordedMatches(result.details)

\* a second run on the same V3X patcher has finished with several detail
\* records, one of them with more than one entry
C24_Witness ==
    /\ prog = "v3x" /\ pc = "done" /\ runs = 2
    /\ Len(result.details) >= 3
    /\ \E d \in RangeOf(result.details) : Len(d.ch) >= 2
    /\ result.applied >= 4

\* ---- a path that has vanished ----

Vanished(p) == fstat[p] = "gone"

\* a step of V3XPatcher.apply that processes a file that does not exist
V3XVanishedStep ==
    /\ prog = "v3x" /\ pc = "run" /\ idx' = idx + 1
    /\ Vanished(V3X_worklist[idx].p)

\* a worker of the driver takes task t, whose file does not exist
DriverVanishedBegin(t) ==
    /\ prog = "driver" /\ fut[t].st = "queued" /\ fut'[t].st # "queued"
    /\ Vanished(Driver_tasks[t].p)

\* the main thread merges the future of a task whose file does not exist
DriverVanishedMerge ==
    /\ prog = "driver" /\ lock = "main" /\ lock' = ""
    /\ Vanished(Driver_tasks[idx].p)

NothingWritten == disk' = disk /\ wlog' = wlog /\ wfail' = wfail

\* C25: a task whose path does not exist when it is processed leaves the
\* result unchanged (no error entry, no applied or skipped count, no detail
\* record) and writes nothing: in V3X the step on such a file changes neither
\* the result nor any file; in the driver the task returns empty counts and
\* lists and merging them changes nothing.
C25_VanishedPathNoOp ==
    [][ /\ V3XVanishedStep => (result' = result /\ NothingWritten)
        /\ \A t \in DOMAIN fut :
               DriverVanishedBegin(t) =>
                   /\ fut'[t].st = "done"
                   /\ fut'[t].res = TaskResult(0, 0, << >>, << >>)
                   /\ result' = result /\ NothingWritten
        /\ DriverVanishedMerge => (result' = result /\ NothingWritten) ]_vars

\* a run of V3X has ended in which the capability file had vanished, both
\* passes went over it, and the other file was patched
C25_Witness ==
    /\ prog = "v3x" /\ pc = "done" /\ ~dry
    /\ all_c = << Dev, Util >> /\ Vanished(Dev) /\ fstat[Util] = "ok"
    /\ result.applied = 1 /\ result.errors = << >>
    /\ Len(result.details) = 1
    /\ \A w \in wlog : w.p = Util
=============================================================================
